---- MODULE Spec2Model ----
(***************************************************************************)
(* Model of the tiered-cache cascade of src/cdn/mock_cdn.py: MockCache,    *)
(* CacheEntry, CacheMetrics and MockCDN (get_content / put_content), run   *)
(* by cooperatively scheduled asyncio tasks.  Every `await asyncio.sleep`  *)
(* and the lock acquisition are suspension points; the code between two    *)
(* suspension points is one atomic action.                                 *)
(***************************************************************************)
EXTENDS Integers, Sequences, FiniteSets, TLC

(* ---------------------------------------------------------------- bounds *)
MaxCalls == 2
MaxTime == 1
\* the largest value of a counter that the rates are computed from
MaxCount == 2
\* the largest age and the largest TTL (seconds) that entries are looked up with
MaxAge == 3

\* two request-handling tasks, each making its calls one after another
Tasks == {1, 2}
Keys == {"0_0_0", "nonexistent"}
\* bytes values: the empty bytes object and a non-empty one
Contents == {<< >>, <<1>>}
\* Python's None where an Optional[bytes] is expected (no byte is negative)
None == <<-1>>

VARIABLES
    config,      \* MockCDN.config: architecture, l1_ttl, l2_ttl
    origin,      \* the filesystem under base_path: key -> bytes of splat.bin, or None
    now,         \* time.time()
    l1_cache,    \* MockCDN.l1_cache: [ttl, storage]
    l2_cache,    \* MockCDN.l2_cache: [ttl, storage], or NoCache
    metrics,     \* MockCDN.metrics
    locked,      \* MockCDN._cache_lock._locked
    waiters,     \* MockCDN._cache_lock._waiters
    pc,          \* where each task is suspended
    key,         \* the key argument of each task's call
    content,     \* the content local / argument of each task's call
    result,      \* what the finished call delivered to its caller
    calls,       \* number of calls started so far
    obs,         \* history of each call, kept to state the properties
    other,       \* the other MockCDN instance of the module, between its calls
    svc          \* the orchestration service: its ResultsStorage and its requests

vars == <<config, origin, now, l1_cache, l2_cache, metrics, locked, waiters,
          pc, key, content, result, calls, obs, other, svc>>

(* ------------------------------------------------------------ data types *)
SINGLE_TIER == "single_tier"
TWO_TIER == "two_tier"

CacheConfig(architecture, l1_ttl, l2_ttl) ==
    [architecture |-> architecture, l1_ttl |-> l1_ttl, l2_ttl |-> l2_ttl]

CacheEntry(c, timestamp, ttl) ==
    [content |-> c, timestamp |-> timestamp, ttl |-> ttl]

\* the bug of counting an entry of age ttl as valid
is_valid_inclusive(entry, time) == time - entry.timestamp <= entry.ttl

is_valid(entry, time) == time - entry.timestamp < entry.ttl

CacheMetrics ==
    [l1_hits |-> 0, l1_misses |-> 0, l2_hits |-> 0, l2_misses |-> 0, origin_hits |-> 0]

\* the bug of counting twice
IncrTwice(m, counter) == [m EXCEPT ![counter] = @ + 2]

\* the bug of counting a regional hit as a regional miss too
IncrHitAsMissToo(m, counter) ==
    IF counter = "l2_hits" THEN [m EXCEPT !.l2_hits = @ + 1, !.l2_misses = @ + 1]
    ELSE [m EXCEPT ![counter] = @ + 1]

Incr(m, counter) == [m EXCEPT ![counter] = @ + 1]

RECURSIVE GCD(_, _)
GCD(a, b) == IF b = 0 THEN a ELSE GCD(b, a % b)

\* the quotient n / d of Python's true division, d > 0, as the fraction in lowest
\* terms that it is the value of
TrueDiv(n, d) == <<n \div GCD(n, d), d \div GCD(n, d)>>

\* the number 0 that the rates are without a lookup
Zero == <<0, 1>>

\* the bug of dividing the hits by the misses
to_dict_hits_per_miss(m) ==
    [l1_hits |-> m.l1_hits, l1_misses |-> m.l1_misses,
     l2_hits |-> m.l2_hits, l2_misses |-> m.l2_misses,
     origin_hits |-> m.origin_hits,
     l1_hit_rate |-> IF m.l1_misses > 0 THEN TrueDiv(m.l1_hits, m.l1_misses) ELSE Zero,
     l2_hit_rate |-> IF m.l2_misses > 0 THEN TrueDiv(m.l2_hits, m.l2_misses) ELSE Zero]

to_dict(m) ==
    [l1_hits |-> m.l1_hits, l1_misses |-> m.l1_misses,
     l2_hits |-> m.l2_hits, l2_misses |-> m.l2_misses,
     origin_hits |-> m.origin_hits,
     l1_hit_rate |-> IF m.l1_hits + m.l1_misses > 0
                     THEN TrueDiv(m.l1_hits, m.l1_hits + m.l1_misses) ELSE Zero,
     l2_hit_rate |-> IF m.l2_hits + m.l2_misses > 0
                     THEN TrueDiv(m.l2_hits, m.l2_hits + m.l2_misses) ELSE Zero]

MockCache(name, ttl) == [name |-> name, ttl |-> ttl, storage |-> << >>]

\* l2_cache of a single-tier cascade
NoCache == [name |-> "None", ttl |-> 0, storage |-> << >>]

\* bool(content) as `if content:` evaluates it
Truthy(c) == c # None /\ Len(c) > 0

(* ------------------------------------------------------------- MockCache *)
\* MockCache.get after its latency: the value returned
\* the bug of reading and deleting the entry without the membership test: a missing
\* key surfaces as a KeyError (the value <<-2>> stands for it) instead of absent
CacheGetValueUnchecked(cache, k, time) ==
    IF k \notin DOMAIN cache.storage THEN <<-2>>
    ELSE IF is_valid(cache.storage[k], time) THEN cache.storage[k].content
    ELSE None

CacheGetValue(cache, k, time) ==
    IF k \in DOMAIN cache.storage /\ is_valid(cache.storage[k], time)
    THEN cache.storage[k].content
    ELSE None

\* the bug of a get that leaves the expired entry in storage
CacheGetStateNoEvict(cache, k, time) == cache

\* the bug of a get that gives the valid entry it returns a new timestamp
CacheGetStateTouch(cache, k, time) ==
    IF k \notin DOMAIN cache.storage THEN cache
    ELSE IF is_valid(cache.storage[k], time)
         THEN [cache EXCEPT !.storage[k].timestamp = time]
         ELSE [cache EXCEPT !.storage = [x \in DOMAIN cache.storage \ {k} |-> cache.storage[x]]]

\* MockCache.get after its latency: the cache it leaves
CacheGetState(cache, k, time) ==
    IF k \in DOMAIN cache.storage /\ ~is_valid(cache.storage[k], time)
    THEN [cache EXCEPT !.storage = [x \in DOMAIN cache.storage \ {k} |-> cache.storage[x]]]
    ELSE cache

\* the bug of a put that keeps the timestamp of the entry it replaces
CachePutKeepStamp(cache, k, c, time) ==
    [cache EXCEPT !.storage =
        [x \in DOMAIN cache.storage \cup {k} |->
            IF x # k THEN cache.storage[x]
            ELSE IF k \in DOMAIN cache.storage
                 THEN CacheEntry(c, cache.storage[k].timestamp, cache.ttl)
                 ELSE CacheEntry(c, time, cache.ttl)]]

\* the bug of a put that sleeps and stores nothing
CachePutDropped(cache, k, c, time) == cache

\* MockCache.put after its latency
CachePut(cache, k, c, time) ==
    [cache EXCEPT !.storage =
        [x \in DOMAIN cache.storage \cup {k} |->
            IF x = k THEN CacheEntry(c, time, cache.ttl) ELSE cache.storage[x]]]

(* ------------------------------------------------------------ the tasks *)
\* the suspension points at which a task holds the cascade lock
Holding == {"l1_get", "l2_get", "l2hit_put", "origin", "fill_l1", "fill_l2"}
\* the suspension points of a call
Suspended == Holding \cup {"lock_wait", "put_l1", "put_l2"}

\* the tasks are interchangeable: a new call is run by the first idle task
NextCall(t) == pc[t] = "idle" /\ calls < MaxCalls /\ \A u \in Tasks : u < t => pc[u] # "idle"

(* ------------------------------------------------- history of the calls *)
\* what a tier lookup found in storage: the age of the entry, -1 for no entry
Found(cache, k, time) ==
    IF k \in DOMAIN cache.storage THEN time - cache.storage[k].timestamp ELSE -1

NoObs ==
    [m0 |-> CacheMetrics, prev |-> None, prevPut |-> None, fresh |-> FALSE,
     seen1 |-> -1, seen2 |-> -1, path |-> << >>, wrote |-> {}, over |-> {},
     putDuring |-> FALSE]

\* the key of the calls made so far while they all are get_content calls of one key
\* ("" before the first call, "mixed" after a put_content, a cancellation or a second key)
OnlyGets(only, k) == IF only \in {"", k} THEN k ELSE "mixed"

NoRets == [l1_hit |-> 0, l2_hit |-> 0, origin_hit |-> 0, not_found |-> 0]

\* a put_content write of key k into `tier` is seen by every get_content(k) in flight
PutSeen(o, k, tier) ==
    [t \in Tasks |->
        IF key[t] = k /\ pc[t] \in Holding
        THEN [o[t] EXCEPT !.over = @ \cup {tier}, !.putDuring = TRUE]
        ELSE o[t]]

\* no finished call is waiting for its caller to take the outcome
Finished == {"returned", "failed", "put_done", "cancelled"}
Quiet == \A t \in Tasks : pc[t] \notin Finished

(* ------------------------------------------------- orchestration service *)
Experiments == {"experiment_A", "experiment_B"}

\* the ExperimentResults bodies that are posted
Bodies ==
    {[experiment_type |-> "single_tier", scenario |-> "teleport"],
     [experiment_type |-> "two_tier", scenario |-> "spiral"]}

\* a request handler not handling a request
NoRequest == [pc |-> "idle", exp |-> "", body |-> << >>, raised |-> "", status |-> 0]

\* create_app: an empty ResultsStorage (results: experiment -> list of records, with
\* the lists last returned by get_results remembered in seen), no request in flight,
\* none made, none answered
NewService ==
    [results |-> << >>, seen |-> [e \in Experiments |-> << >>],
     req |-> [r \in Tasks |-> NoRequest], posts |-> 0, ok |-> 0]

\* defaultdict(list): the list of the experiment, empty when there is none yet
ResultsOf(results, e) == IF e \in DOMAIN results THEN results[e] ELSE << >>

\* the bug of storing the record as the experiment's only one
add_result_overwrites(results, e, data, time) ==
    [x \in DOMAIN results \cup {e} |->
        IF x = e THEN <<[timestamp |-> time, data |-> data]>> ELSE results[x]]

\* ResultsStorage.add_result: its lock is free whenever a task runs, because no
\* suspension point lies between its acquisition and its release, so the method
\* runs as one step
add_result(results, e, data, time) ==
    [x \in DOMAIN results \cup {e} |->
        IF x = e THEN Append(ResultsOf(results, e), [timestamp |-> time, data |-> data])
        ELSE results[x]]

(* ------------------------------------------------------ MockCDN.__init__ *)
\* the bug of constructing a regional tier whatever the architecture
MockCDNRegionalAlways(cfg) ==
    /\ config = cfg
    /\ metrics = CacheMetrics
    /\ locked = FALSE
    /\ waiters = << >>
    /\ l1_cache = MockCache("edge", cfg.l1_ttl)
    /\ l2_cache = MockCache("regional", cfg.l2_ttl)

MockCDN(cfg) ==
    /\ config = cfg
    /\ metrics = CacheMetrics
    /\ locked = FALSE
    /\ waiters = << >>
    /\ l1_cache = MockCache("edge", cfg.l1_ttl)
    /\ l2_cache = IF cfg.architecture = TWO_TIER
                  THEN MockCache("regional", cfg.l2_ttl)
                  ELSE NoCache

\* the origins a cascade is run against: the first key has a splat.bin (non-empty
\* or empty), the second key has none
Origins ==
    {[k \in Keys |-> IF k = "0_0_0" THEN c ELSE None] : c \in Contents}

\* the configurations a cascade is constructed with (TTLs in seconds)
Configs ==
    {CacheConfig(SINGLE_TIER, 1, 2), CacheConfig(TWO_TIER, 1, 2), CacheConfig(TWO_TIER, 2, 1)}

\* the configuration of the other instance of the module: the other architecture,
\* the same (default) TTLs
Counterpart(cfg) ==
    CacheConfig(IF cfg.architecture = SINGLE_TIER THEN TWO_TIER ELSE SINGLE_TIER,
                cfg.l1_ttl, cfg.l2_ttl)

\* a MockCDN instance no call of which is in flight: what it owns, and the labels it
\* has returned
Cascade(cfg, l1, l2, m, rets, lastRet, stored) ==
    [config |-> cfg, l1_cache |-> l1, l2_cache |-> l2, metrics |-> m,
     rets |-> rets, lastRet |-> lastRet, stored |-> stored]

\* the instance as constructed
NewCascade(cfg) ==
    Cascade(cfg, MockCache("edge", cfg.l1_ttl),
            IF cfg.architecture = TWO_TIER THEN MockCache("regional", cfg.l2_ttl)
            ELSE NoCache,
            CacheMetrics, NoRets, [k \in Keys |-> None], {})

\* no snapshot of the counters has been taken
NoSnapshot ==
    [taken |-> FALSE, live |-> FALSE, value |-> to_dict(CacheMetrics),
     base |-> CacheMetrics, at |-> ""]

\* a cascade after construction, no call made yet; with `logging` the calls are
\* recorded in obs.log as their callers take the outcomes
Start(logging) ==
    /\ \E cfg \in Configs : MockCDN(cfg)
    /\ other = NewCascade(Counterpart(config))
    /\ svc = NewService
    /\ origin \in Origins
    /\ now = 0
    /\ pc = [t \in Tasks |-> "idle"]
    /\ key = [t \in Tasks |-> ""]
    /\ content = [t \in Tasks |-> None]
    /\ result = [t \in Tasks |-> << >>]
    /\ calls = 0
    /\ obs = [task |-> [t \in Tasks |-> NoObs],
              lastRet |-> [k \in Keys |-> None],
              stored |-> {},
              rets |-> NoRets,
              only |-> "",
              logging |-> logging,
              log |-> << >>,
              snapshot |-> NoSnapshot]

Init == Start(FALSE)

(* -------------------------------------------------- asyncio.Lock, return *)
\* the bug of entering the resolution without looking at the lock
CanAcquireUnguarded == TRUE

\* asyncio.Lock.acquire takes the lock at once when it is free and nobody waits for it
CanAcquire == ~locked /\ waiters = << >>

\* the content of the put_content(k, c) that was the last call to end, when no other
\* put_content of k is in flight; None otherwise (and when the calls are not logged)
LastPut(k) ==
    LET n == Len(obs.log)
    IN IF /\ n > 0
          /\ obs.log[n][1] = "put_done" /\ obs.log[n][2] = k
          /\ \A u \in Tasks : ~(pc[u] \in {"put_l1", "put_l2"} /\ key[u] = k)
       THEN obs.log[n][3] ELSE None

\* the bookkeeping of a get_content call at the moment it holds the lock
Acquired(t, k) ==
    [obs EXCEPT !.task[t] = [NoObs EXCEPT !.m0 = metrics,
                                          !.prev = obs.lastRet[k],
                                          !.prevPut = LastPut(k),
                                          !.fresh = k \notin obs.stored],
                !.lastRet[k] = None]

\* `return content, label` out of the `async with` block: the lock is released
Return(t, c, label) ==
    /\ result' = [result EXCEPT ![t] = <<c, label>>]
    /\ pc' = [pc EXCEPT ![t] = "returned"]
    /\ locked' = FALSE

\* the detail of the HTTPException that get_content(k) raises: the fixed prefix and
\* str() of the exception raised inside the try block, itself
\* HTTPException(404, "Content not found") for every key
NotFoundDetail(k) == <<"Content not found: ", "404: Content not found">>

\* the bug of raising without leaving the `async with` block: the lock stays taken
Raise404KeepLock(t) ==
    /\ result' = [result EXCEPT ![t] = <<None, "HTTPException_404">>]
    /\ pc' = [pc EXCEPT ![t] = "failed"]
    /\ locked' = locked

\* `raise HTTPException(status_code=404, ...)` out of the `async with` block
Raise404(t) ==
    /\ result' = [result EXCEPT ![t] = <<None, "HTTPException_404">>]
    /\ pc' = [pc EXCEPT ![t] = "failed"]
    /\ locked' = FALSE

(* ------------------------------------------------- MockCDN.get_content *)
\* the bug of going from an edge miss straight to origin
AfterL1MissSkipL2(cfg) == "origin"

\* the bug of consulting a regional tier whatever the architecture
AfterL1MissRegionalAlways(cfg) == "l2_get"

\* lines 108-119: after an edge miss the regional tier is consulted in a two-tier
\* cascade, origin otherwise
AfterL1Miss(cfg) == IF cfg.architecture = TWO_TIER THEN "l2_get" ELSE "origin"

\* the bug of reading a missing splat.bin as empty content
ReadOriginNoCheck(k) == IF origin[k] = None THEN << >> ELSE origin[k]

\* the bug of reading the splat.bin of one fixed key whatever key is asked for
ReadOriginFixedKey(k) == origin["0_0_0"]

\* lines 122-127: splat.bin of the key is read if it exists
ReadOrigin(k) == origin[k]

\* the call up to its first suspension: the lock is taken if it is free and nobody
\* waits for it, and the task sleeps in l1_cache.get; otherwise it queues for the lock
get_content(t, k) ==
    /\ Quiet
    /\ NextCall(t)
    /\ calls' = calls + 1
    /\ key' = [key EXCEPT ![t] = k]
    /\ IF CanAcquire
       THEN /\ locked' = TRUE
            /\ pc' = [pc EXCEPT ![t] = "l1_get"]
            /\ obs' = [Acquired(t, k) EXCEPT !.only = OnlyGets(@, k)]
            /\ UNCHANGED waiters
       ELSE /\ waiters' = Append(waiters, t)
            /\ pc' = [pc EXCEPT ![t] = "lock_wait"]
            /\ obs' = [obs EXCEPT !.only = OnlyGets(@, k)]
            /\ UNCHANGED locked
    /\ UNCHANGED <<config, origin, now, l1_cache, l2_cache, metrics, content, result>>
    /\ UNCHANGED <<other, svc>>

\* the first waiter is woken after a release and takes the lock
LockGranted(t) ==
    /\ Quiet
    /\ pc[t] = "lock_wait"
    /\ ~locked
    /\ waiters # << >> /\ Head(waiters) = t
    /\ locked' = TRUE
    /\ waiters' = Tail(waiters)
    /\ pc' = [pc EXCEPT ![t] = "l1_get"]
    /\ obs' = Acquired(t, key[t])
    /\ UNCHANGED <<config, origin, now, l1_cache, l2_cache, metrics, key, content,
                   result, calls>>
    /\ UNCHANGED <<other, svc>>

\* lines 101-106 (and 109-110, 119): the edge lookup and what follows it
L1Lookup(t) ==
    /\ Quiet
    /\ pc[t] = "l1_get"
    /\ LET k == key[t]
           c == CacheGetValue(l1_cache, k, now)
           seen == [obs EXCEPT !.task[t].seen1 = Found(l1_cache, k, now),
                               !.task[t].path = Append(@, "l1")]
       IN /\ l1_cache' = CacheGetState(l1_cache, k, now)
          /\ content' = [content EXCEPT ![t] = c]
          /\ IF Truthy(c)
             THEN /\ metrics' = Incr(metrics, "l1_hits")
                  /\ Return(t, c, "l1_hit")
                  /\ obs' = [seen EXCEPT !.lastRet[k] = c, !.rets.l1_hit = @ + 1]
             ELSE /\ metrics' = Incr(metrics, "l1_misses")
                  /\ pc' = [pc EXCEPT ![t] = AfterL1Miss(config)]
                  /\ obs' = seen
                  /\ UNCHANGED <<result, locked>>
    /\ UNCHANGED <<config, origin, now, l2_cache, waiters, key, calls>>
    /\ UNCHANGED <<other, svc>>

\* lines 110-116 (and 119): the regional lookup and what follows it
L2Lookup(t) ==
    /\ Quiet
    /\ pc[t] = "l2_get"
    /\ LET k == key[t]
           c == CacheGetValue(l2_cache, k, now)
       IN /\ l2_cache' = CacheGetState(l2_cache, k, now)
          /\ content' = [content EXCEPT ![t] = c]
          /\ obs' = [obs EXCEPT !.task[t].seen2 = Found(l2_cache, k, now),
                                !.task[t].path = Append(@, "l2")]
          /\ IF Truthy(c)
             THEN /\ metrics' = Incr(metrics, "l2_hits")
                  /\ pc' = [pc EXCEPT ![t] = "l2hit_put"]
             ELSE /\ metrics' = Incr(metrics, "l2_misses")
                  /\ pc' = [pc EXCEPT ![t] = "origin"]
    /\ UNCHANGED <<config, origin, now, l1_cache, locked, waiters, key, result, calls>>
    /\ UNCHANGED <<other, svc>>

\* the bug of storing the regional hit in the regional tier again as well
L2HitPopulateBoth(t) ==
    /\ Quiet
    /\ pc[t] = "l2hit_put"
    /\ l1_cache' = CachePut(l1_cache, key[t], content[t], now)
    /\ l2_cache' = CachePut(l2_cache, key[t], content[t], now)
    /\ Return(t, content[t], "l2_hit")
    /\ obs' = [obs EXCEPT !.task[t].wrote = @ \cup {"l1"},
                          !.task[t].over = @ \ {"l1"},
                          !.stored = @ \cup {key[t]},
                          !.lastRet[key[t]] = content[t],
                          !.rets.l2_hit = @ + 1]
    /\ UNCHANGED <<config, origin, now, metrics, waiters, key, content, calls>>
    /\ UNCHANGED <<other, svc>>

\* lines 114-115: the edge is populated from the regional hit, then the call returns
L2HitPopulate(t) ==
    /\ Quiet
    /\ pc[t] = "l2hit_put"
    /\ l1_cache' = CachePut(l1_cache, key[t], content[t], now)
    /\ Return(t, content[t], "l2_hit")
    /\ obs' = [obs EXCEPT !.task[t].wrote = @ \cup {"l1"},
                          !.task[t].over = @ \ {"l1"},
                          !.stored = @ \cup {key[t]},
                          !.lastRet[key[t]] = content[t],
                          !.rets.l2_hit = @ + 1]
    /\ UNCHANGED <<config, origin, now, l2_cache, metrics, waiters, key, content, calls>>
    /\ UNCHANGED <<other, svc>>

\* lines 119-129 and 137-138: the origin is read after its latency
OriginFetch(t) ==
    /\ Quiet
    /\ pc[t] = "origin"
    /\ IF ReadOrigin(key[t]) = None
       THEN /\ Raise404(t)
            /\ obs' = [obs EXCEPT !.task[t].path = Append(@, "origin"),
                                  !.rets.not_found = @ + 1]
            /\ UNCHANGED <<metrics, content>>
       ELSE /\ content' = [content EXCEPT ![t] = ReadOrigin(key[t])]
            /\ metrics' = Incr(metrics, "origin_hits")
            /\ pc' = [pc EXCEPT ![t] = "fill_l1"]
            /\ obs' = [obs EXCEPT !.task[t].path = Append(@, "origin")]
            /\ UNCHANGED <<result, locked>>
    /\ UNCHANGED <<config, origin, now, l1_cache, l2_cache, waiters, key, calls>>
    /\ UNCHANGED <<other, svc>>

\* lines 132-136: the edge is populated from origin
FillL1(t) ==
    /\ Quiet
    /\ pc[t] = "fill_l1"
    /\ l1_cache' = CachePut(l1_cache, key[t], content[t], now)
    /\ IF config.architecture = TWO_TIER
       THEN /\ pc' = [pc EXCEPT ![t] = "fill_l2"]
            /\ obs' = [obs EXCEPT !.task[t].wrote = @ \cup {"l1"},
                                  !.task[t].over = @ \ {"l1"},
                                  !.stored = @ \cup {key[t]}]
            /\ UNCHANGED <<result, locked>>
       ELSE /\ Return(t, content[t], "origin_hit")
            /\ obs' = [obs EXCEPT !.task[t].wrote = @ \cup {"l1"},
                                  !.task[t].over = @ \ {"l1"},
                                  !.stored = @ \cup {key[t]},
                                  !.lastRet[key[t]] = content[t],
                                  !.rets.origin_hit = @ + 1]
    /\ UNCHANGED <<config, origin, now, l2_cache, metrics, waiters, key, content, calls>>
    /\ UNCHANGED <<other, svc>>

\* lines 134-136: the regional tier is populated from origin, then the call returns
FillL2(t) ==
    /\ Quiet
    /\ pc[t] = "fill_l2"
    /\ l2_cache' = CachePut(l2_cache, key[t], content[t], now)
    /\ Return(t, content[t], "origin_hit")
    /\ obs' = [obs EXCEPT !.task[t].wrote = @ \cup {"l2"},
                          !.task[t].over = @ \ {"l2"},
                          !.stored = @ \cup {key[t]},
                          !.lastRet[key[t]] = content[t],
                          !.rets.origin_hit = @ + 1]
    /\ UNCHANGED <<config, origin, now, l1_cache, metrics, waiters, key, content, calls>>
    /\ UNCHANGED <<other, svc>>

(* ------------------------------------------------- MockCDN.put_content *)
\* the bug of writing the edge tier only
AfterL1PutEdgeOnly(cfg) == "put_done"

\* the bug of writing the regional tier whatever the architecture
AfterL1PutRegionalAlways(cfg) == "put_l2"

\* lines 144-145: the regional tier is written after the edge in a two-tier cascade
AfterL1Put(cfg) == IF cfg.architecture = TWO_TIER THEN "put_l2" ELSE "put_done"

\* the call up to its first suspension: the task sleeps in l1_cache.put
put_content(t, k, c) ==
    /\ Quiet
    /\ NextCall(t)
    /\ calls' = calls + 1
    /\ key' = [key EXCEPT ![t] = k]
    /\ content' = [content EXCEPT ![t] = c]
    /\ pc' = [pc EXCEPT ![t] = "put_l1"]
    /\ obs' = [obs EXCEPT !.only = "mixed"]
    /\ UNCHANGED <<config, origin, now, l1_cache, l2_cache, metrics, locked, waiters,
                   result>>
    /\ UNCHANGED <<other, svc>>

\* line 143 after the latency, then line 144
PutL1(t) ==
    /\ Quiet
    /\ pc[t] = "put_l1"
    /\ l1_cache' = CachePut(l1_cache, key[t], content[t], now)
    /\ pc' = [pc EXCEPT ![t] = AfterL1Put(config)]
    /\ obs' = [obs EXCEPT !.task = PutSeen(@, key[t], "l1"),
                          !.stored = @ \cup {key[t]},
                          !.lastRet[key[t]] = None]
    /\ UNCHANGED <<config, origin, now, l2_cache, metrics, locked, waiters, key,
                   content, result, calls>>
    /\ UNCHANGED <<other, svc>>

\* line 145 after the latency
PutL2(t) ==
    /\ Quiet
    /\ pc[t] = "put_l2"
    /\ l2_cache' = CachePut(l2_cache, key[t], content[t], now)
    /\ pc' = [pc EXCEPT ![t] = "put_done"]
    /\ obs' = [obs EXCEPT !.task = PutSeen(@, key[t], "l2"),
                          !.stored = @ \cup {key[t]},
                          !.lastRet[key[t]] = None]
    /\ UNCHANGED <<config, origin, now, l1_cache, metrics, locked, waiters, key,
                   content, result, calls>>
    /\ UNCHANGED <<other, svc>>

(* ------------------------------------------------------- the environment *)
\* the record of an ended call: how it ended, its key, the content it returned (the
\* content it stored, for put_content) and the label it returned
Outcome(t) ==
    IF pc[t] = "put_done" THEN <<"put_done", key[t], content[t], "">>
    ELSE <<pc[t], key[t], result[t][1], result[t][2]>>

\* the caller takes the outcome of its call in the step that follows its end (every
\* other action waits for it: Quiet); the task is then free for another call
Collect(t) ==
    /\ pc[t] \in Finished
    /\ pc' = [pc EXCEPT ![t] = "idle"]
    /\ key' = [key EXCEPT ![t] = ""]
    /\ content' = [content EXCEPT ![t] = None]
    /\ result' = [result EXCEPT ![t] = << >>]
    /\ obs' = [obs EXCEPT !.task[t] = NoObs,
                          !.log = IF obs.logging THEN Append(@, Outcome(t)) ELSE @]
    /\ UNCHANGED <<config, origin, now, l1_cache, l2_cache, metrics, locked, waiters,
                   calls>>
    /\ UNCHANGED <<other, svc>>

\* the bug of undoing the counts of a cancelled resolution
CancelRollback(t) ==
    /\ Quiet
    /\ pc[t] \in Suspended
    /\ pc' = [pc EXCEPT ![t] = "cancelled"]
    /\ result' = [result EXCEPT ![t] = <<None, "CancelledError">>]
    /\ locked' = IF pc[t] \in Holding THEN FALSE ELSE locked
    /\ waiters' = SelectSeq(waiters, LAMBDA u : u # t)
    /\ obs' = [obs EXCEPT !.only = "mixed"]
    /\ metrics' = IF pc[t] \in Holding THEN obs.task[t].m0 ELSE metrics
    /\ UNCHANGED <<config, origin, now, l1_cache, l2_cache, key, content, calls>>
    /\ UNCHANGED <<other, svc>>

\* the task is cancelled while suspended: CancelledError leaves the `async with`
\* block (the lock is released) or the lock's queue; nothing is undone
Cancel(t) ==
    /\ Quiet
    /\ pc[t] \in Suspended
    /\ pc' = [pc EXCEPT ![t] = "cancelled"]
    /\ result' = [result EXCEPT ![t] = <<None, "CancelledError">>]
    /\ locked' = IF pc[t] \in Holding THEN FALSE ELSE locked
    /\ waiters' = SelectSeq(waiters, LAMBDA u : u # t)
    /\ obs' = [obs EXCEPT !.only = "mixed"]
    /\ UNCHANGED <<config, origin, now, l1_cache, l2_cache, metrics, key, content, calls>>
    /\ UNCHANGED <<other, svc>>

\* the bug of handing out a view of the counters object instead of a new dict
SnapshotLive(m) == [taken |-> TRUE, live |-> TRUE, value |-> to_dict(m)]

\* what get_metrics returns: a new dict of the counters' values and the two rates
Snapshot(m) == [taken |-> TRUE, live |-> FALSE, value |-> to_dict(m)]

\* what the holder of a snapshot reads in it
View(snapshot) == IF snapshot.live THEN to_dict(metrics) ELSE snapshot.value

\* get_metrics is synchronous and takes no lock: it runs between any two steps of the
\* calls in flight. With the snapshot are remembered the position of the resolution
\* that holds the lock, if any, and the counters that resolution found.
get_metrics ==
    /\ Quiet
    /\ LET holders == {t \in Tasks : pc[t] \in Holding}
           h == CHOOSE t \in holders : TRUE
           s == Snapshot(metrics)
       IN obs' = [obs EXCEPT !.snapshot =
                     [taken |-> s.taken, live |-> s.live, value |-> s.value,
                      base |-> IF holders = {} THEN metrics ELSE obs.task[h].m0,
                      at |-> IF holders = {} THEN "" ELSE pc[h]]]
    /\ UNCHANGED <<config, origin, now, l1_cache, l2_cache, metrics, locked, waiters, pc,
                   key, content, result, calls>>
    /\ UNCHANGED <<other, svc>>

\* time.time() advances while tasks sleep
Tick ==
    /\ Quiet
    /\ now < MaxTime
    /\ now' = now + 1
    /\ UNCHANGED <<config, origin, l1_cache, l2_cache, metrics, locked, waiters, pc,
                   key, content, result, calls, obs>>
    /\ UNCHANGED <<other, svc>>

Next ==
    \/ \E t \in Tasks, k \in Keys : get_content(t, k)
    \/ \E t \in Tasks : LockGranted(t)
    \/ \E t \in Tasks : L1Lookup(t)
    \/ \E t \in Tasks : L2Lookup(t)
    \/ \E t \in Tasks : L2HitPopulate(t)
    \/ \E t \in Tasks : OriginFetch(t)
    \/ \E t \in Tasks : FillL1(t)
    \/ \E t \in Tasks : FillL2(t)
    \/ \E t \in Tasks, k \in Keys, c \in Contents : put_content(t, k, c)
    \/ \E t \in Tasks : PutL1(t)
    \/ \E t \in Tasks : PutL2(t)
    \/ \E t \in Tasks : Cancel(t)
    \/ \E t \in Tasks : Collect(t)
    \/ Tick

Spec == Init /\ [][Next]_vars

\* the step that the event loop runs a task for when its sleep has ended, the lock
\* has been handed to it, or its caller resumes with the outcome
Resume(t) ==
    \/ LockGranted(t)
    \/ L1Lookup(t)
    \/ L2Lookup(t)
    \/ L2HitPopulate(t)
    \/ OriginFetch(t)
    \/ FillL1(t)
    \/ FillL2(t)
    \/ Collect(t)

\* the get_content calls alone, cancellations included
NextLive ==
    \/ \E t \in Tasks, k \in Keys : get_content(t, k)
    \/ \E t \in Tasks : LockGranted(t)
    \/ \E t \in Tasks : L1Lookup(t)
    \/ \E t \in Tasks : L2Lookup(t)
    \/ \E t \in Tasks : L2HitPopulate(t)
    \/ \E t \in Tasks : OriginFetch(t)
    \/ \E t \in Tasks : FillL1(t)
    \/ \E t \in Tasks : FillL2(t)
    \/ \E t \in Tasks : Cancel(t)
    \/ \E t \in Tasks : Collect(t)
    \/ Tick

\* the event loop runs every task that is ready: a sleep of finite length ends, and
\* a task that can run is run
SpecLive == Init /\ [][NextLive]_vars /\ \A t \in Tasks : WF_vars(Resume(t))

(* ------------------------------------------------------ transport layer *)
\* the bug of the two instances sharing one CacheMetrics object
SwapSharedMetrics ==
    /\ \A t \in Tasks : pc[t] = "idle"
    /\ config' = other.config
    /\ l1_cache' = other.l1_cache
    /\ l2_cache' = other.l2_cache
    /\ obs' = [obs EXCEPT !.rets = other.rets, !.lastRet = other.lastRet,
                          !.stored = other.stored]
    /\ other' = Cascade(config, l1_cache, l2_cache, metrics,
                        obs.rets, obs.lastRet, obs.stored)
    /\ UNCHANGED <<metrics, origin, now, locked, waiters, pc, key, content, result, calls,
                   svc>>

\* the next request is for the other instance (single_tier_cdn / two_tier_cdn): the
\* instance that has been called is set aside with all that it owns, and the other
\* one is called from now on; no call is in flight
Swap ==
    /\ \A t \in Tasks : pc[t] = "idle"
    /\ config' = other.config
    /\ l1_cache' = other.l1_cache
    /\ l2_cache' = other.l2_cache
    /\ metrics' = other.metrics
    /\ obs' = [obs EXCEPT !.rets = other.rets, !.lastRet = other.lastRet,
                          !.stored = other.stored]
    /\ other' = Cascade(config, l1_cache, l2_cache, metrics,
                        obs.rets, obs.lastRet, obs.stored)
    /\ UNCHANGED <<origin, now, locked, waiters, pc, key, content, result, calls, svc>>

\* the body of the /metrics endpoint of the CDN
MetricsResponse ==
    IF config.architecture = SINGLE_TIER
    THEN [single_tier |-> to_dict(metrics), two_tier |-> to_dict(other.metrics)]
    ELSE [single_tier |-> to_dict(other.metrics), two_tier |-> to_dict(metrics)]

(* ------------------------------------------------- orchestration service *)
\* what leaves the inner try block when awaiting cdn_backend.get_metrics() raises:
\* asyncio.TimeoutError becomes HTTPException(504), anything else passes
InnerExcept(kind) ==
    IF kind = "TimeoutError" THEN [type |-> "HTTPException", status_code |-> 504]
    ELSE [type |-> kind, status_code |-> 0]

\* the bug of an outer handler that turns every exception into a 500
OuterExceptAlways500(e) == 500

\* the outer `except Exception`: an HTTPException is raised again, anything else
\* becomes HTTPException(500); the status the request is answered with
OuterExcept(e) == IF e.type = "HTTPException" THEN e.status_code ELSE 500

\* POST /results/{experiment_id}: up to the await of the CDN metrics
post_results(r, e, b) ==
    /\ svc.req[r].pc = "idle"
    /\ \A q \in Tasks : svc.req[q].pc # "responded"
    /\ svc.posts < MaxCalls
    /\ svc' = [svc EXCEPT !.req[r] = [NoRequest EXCEPT !.pc = "metrics_wait",
                                                      !.exp = e, !.body = b],
                          !.posts = @ + 1]
    /\ UNCHANGED <<config, origin, now, l1_cache, l2_cache, metrics, locked, waiters, pc,
                   key, content, result, calls, obs, other>>

\* the CDN metrics arrive within the 3 seconds: the combined record is stored and
\* the request is answered with success
MetricsReturned(r) ==
    /\ svc.req[r].pc = "metrics_wait"
    /\ \A q \in Tasks : svc.req[q].pc # "responded"
    /\ LET combined_results == [test_results |-> svc.req[r].body,
                                cdn_metrics |-> MetricsResponse]
       IN svc' = [svc EXCEPT
                     !.results = add_result(@, svc.req[r].exp, combined_results, now),
                     !.req[r].pc = "responded",
                     !.req[r].status = 200,
                     !.ok = @ + 1]
    /\ UNCHANGED <<config, origin, now, l1_cache, l2_cache, metrics, locked, waiters, pc,
                   key, content, result, calls, obs, other>>

\* the await of the CDN metrics raises: the 3 seconds have passed (TimeoutError) or
\* the retrieval has failed (ConnectError)
MetricsRaised(r, kind) ==
    /\ svc.req[r].pc = "metrics_wait"
    /\ \A q \in Tasks : svc.req[q].pc # "responded"
    /\ svc' = [svc EXCEPT !.req[r].pc = "responded",
                          !.req[r].raised = kind,
                          !.req[r].status = OuterExcept(InnerExcept(kind))]
    /\ UNCHANGED <<config, origin, now, l1_cache, l2_cache, metrics, locked, waiters, pc,
                   key, content, result, calls, obs, other>>

\* the client takes the answer in the step after it
Respond(r) ==
    /\ svc.req[r].pc = "responded"
    /\ svc' = [svc EXCEPT !.req[r] = NoRequest]
    /\ UNCHANGED <<config, origin, now, l1_cache, l2_cache, metrics, locked, waiters, pc,
                   key, content, result, calls, obs, other>>

\* GET /results/{experiment_id}: get_experiment_results returns the experiment's list,
\* which the defaultdict creates when there is none
get_results(e) ==
    /\ \A q \in Tasks : svc.req[q].pc # "responded"
    /\ svc' = [svc EXCEPT
                  !.results = [x \in DOMAIN @ \cup {e} |-> ResultsOf(@, x)],
                  !.seen[e] = ResultsOf(svc.results, e)]
    /\ UNCHANGED <<config, origin, now, l1_cache, l2_cache, metrics, locked, waiters, pc,
                   key, content, result, calls, obs, other>>

\* ResultsStorage.get_all_results: a dict of the experiments the storage has a list
\* for, with their lists
get_all_results(results) == [e \in DOMAIN results |-> results[e]]

\* the service with its requests in flight, the clock of the record timestamps running
NextService ==
    \/ \E r \in Tasks, e \in Experiments, b \in Bodies : post_results(r, e, b)
    \/ \E r \in Tasks : MetricsReturned(r)
    \/ \E r \in Tasks, kind \in {"TimeoutError", "ConnectError"} : MetricsRaised(r, kind)
    \/ \E r \in Tasks : Respond(r)
    \/ \E e \in Experiments : get_results(e)
    \/ Tick
SpecService == Init /\ [][NextService]_vars

(* ------------------------------------------------------ transport layer *)
\* the two instances of the module, called one at a time, while no TTL elapses
NextPair ==
    \/ \E t \in Tasks, k \in Keys : get_content(t, k)
    \/ \E t \in Tasks : LockGranted(t)
    \/ \E t \in Tasks : L1Lookup(t)
    \/ \E t \in Tasks : L2Lookup(t)
    \/ \E t \in Tasks : L2HitPopulate(t)
    \/ \E t \in Tasks : OriginFetch(t)
    \/ \E t \in Tasks : FillL1(t)
    \/ \E t \in Tasks : FillL2(t)
    \/ \E t \in Tasks, k \in Keys, c \in Contents : put_content(t, k, c)
    \/ \E t \in Tasks : PutL1(t)
    \/ \E t \in Tasks : PutL2(t)
    \/ \E t \in Tasks : Collect(t)
    \/ Swap
SpecPair == Init /\ [][NextPair]_vars

\* str.encode(): the UTF-8 bytes of a string, given as its code points (below 2048)
RECURSIVE Encode(_)
Encode(str) ==
    IF str = << >> THEN << >>
    ELSE LET cp == Head(str)
         IN (IF cp < 128 THEN <<cp>> ELSE <<192 + (cp \div 64), 128 + (cp % 64)>>)
            \o Encode(Tail(str))

\* the code point of the lower-case hexadecimal digit of n < 16
HexDigit(n) == IF n < 10 THEN 48 + n ELSE 87 + n

\* bytes.hex(): two hexadecimal digits for each byte, as a string of code points
RECURSIVE Hex(_)
Hex(bytes) ==
    IF bytes = << >> THEN << >>
    ELSE <<HexDigit(Head(bytes) \div 16), HexDigit(Head(bytes) % 16)>> \o Hex(Tail(bytes))

\* the strings uploaded through the content-upload endpoint, which stores
\* Encode(str): the empty string and the string of the one character U+0001
UploadStrings == {<< >>, <<1>>}

\* the body with which a content-retrieval endpoint answers what get_content returned
ContentResponse(r) == [content |-> Hex(r[1]), cache_status |-> r[2]]

\* the cascade with its counters read at any time, while no TTL elapses
NextMetrics ==
    \/ \E t \in Tasks, k \in Keys : get_content(t, k)
    \/ \E t \in Tasks : LockGranted(t)
    \/ \E t \in Tasks : L1Lookup(t)
    \/ \E t \in Tasks : L2Lookup(t)
    \/ \E t \in Tasks : L2HitPopulate(t)
    \/ \E t \in Tasks : OriginFetch(t)
    \/ \E t \in Tasks : FillL1(t)
    \/ \E t \in Tasks : FillL2(t)
    \/ \E t \in Tasks, k \in Keys, c \in Contents : put_content(t, k, c)
    \/ \E t \in Tasks : PutL1(t)
    \/ \E t \in Tasks : PutL2(t)
    \/ \E t \in Tasks : Cancel(t)
    \/ \E t \in Tasks : Collect(t)
    \/ get_metrics

SpecMetrics == Init /\ [][NextMetrics]_vars

\* the counters that ended calls can have left in a cascade: every regional lookup
\* follows an edge miss, every origin hit follows the misses of all tiers
CounterValues(cfg) ==
    {m \in [DOMAIN CacheMetrics -> 0..MaxCount] :
        /\ IF cfg.architecture = TWO_TIER
           THEN m.l2_hits + m.l2_misses <= m.l1_misses /\ m.origin_hits <= m.l2_misses
           ELSE m.l2_hits = 0 /\ m.l2_misses = 0 /\ m.origin_hits <= m.l1_misses}

\* a cascade at rest whose ended calls have left the counters m and no valid entry
InitRates ==
    /\ \E cfg \in Configs :
          /\ config = cfg
          /\ metrics \in CounterValues(cfg)
          /\ l1_cache = MockCache("edge", cfg.l1_ttl)
          /\ l2_cache = IF cfg.architecture = TWO_TIER
                        THEN MockCache("regional", cfg.l2_ttl)
                        ELSE NoCache
    /\ locked = FALSE
    /\ waiters = << >>
    /\ other = NewCascade(Counterpart(config))
    /\ svc = NewService
    /\ origin \in Origins
    /\ now = 0
    /\ pc = [t \in Tasks |-> "idle"]
    /\ key = [t \in Tasks |-> ""]
    /\ content = [t \in Tasks |-> None]
    /\ result = [t \in Tasks |-> << >>]
    /\ calls = MaxCalls
    /\ obs = [task |-> [t \in Tasks |-> NoObs],
              lastRet |-> [k \in Keys |-> None],
              stored |-> {},
              rets |-> NoRets,
              only |-> "mixed",
              logging |-> FALSE,
              log |-> << >>,
              snapshot |-> NoSnapshot]

\* to_dict applied to those counters
SpecRates == InitRates /\ [][get_metrics]_vars

\* a cascade whose tiers hold an entry for the first key, stored at time ts with the
\* tier's TTL, in which a get_content of that key has taken the lock at a time
\* between ts and ts + MaxAge
InitValid ==
    /\ \E a \in {SINGLE_TIER, TWO_TIER}, ttl1, ttl2 \in 0..MaxAge, c \in Contents,
          time \in 0..MaxAge :
        \E ts \in 0..time :
          /\ config = CacheConfig(a, ttl1, ttl2)
          /\ now = time
          /\ l1_cache = CachePut(MockCache("edge", ttl1), "0_0_0", c, ts)
          /\ l2_cache = IF a = TWO_TIER
                        THEN CachePut(MockCache("regional", ttl2), "0_0_0", c, ts)
                        ELSE NoCache
    /\ metrics = CacheMetrics
    /\ locked = TRUE
    /\ waiters = << >>
    /\ other = NewCascade(Counterpart(config))
    /\ svc = NewService
    /\ origin \in Origins
    /\ pc = [t \in Tasks |-> IF t = 1 THEN "l1_get" ELSE "idle"]
    /\ key = [t \in Tasks |-> IF t = 1 THEN "0_0_0" ELSE ""]
    /\ content = [t \in Tasks |-> None]
    /\ result = [t \in Tasks |-> << >>]
    /\ calls = MaxCalls
    /\ obs = [task |-> [t \in Tasks |-> NoObs],
              lastRet |-> [k \in Keys |-> None],
              stored |-> {"0_0_0"},
              rets |-> NoRets,
              only |-> "mixed",
              logging |-> FALSE,
              log |-> << >>,
              snapshot |-> NoSnapshot]

\* MockCache.get, and with it is_valid, applied to those entries
NextValid ==
    \/ \E t \in Tasks : L1Lookup(t)
    \/ \E t \in Tasks : L2Lookup(t)
SpecValid == InitValid /\ [][NextValid]_vars

\* the same cascade with the ended calls recorded
InitLog == Start(TRUE)
SpecLog == InitLog /\ [][Next]_vars

\* the calls of the cascade, cancellations included, within one second, the ended
\* calls recorded in obs.log
NextCount ==
    \/ \E t \in Tasks, k \in Keys : get_content(t, k)
    \/ \E t \in Tasks : LockGranted(t)
    \/ \E t \in Tasks : L1Lookup(t)
    \/ \E t \in Tasks : L2Lookup(t)
    \/ \E t \in Tasks : L2HitPopulate(t)
    \/ \E t \in Tasks : OriginFetch(t)
    \/ \E t \in Tasks : FillL1(t)
    \/ \E t \in Tasks : FillL2(t)
    \/ \E t \in Tasks, k \in Keys, c \in Contents : put_content(t, k, c)
    \/ \E t \in Tasks : PutL1(t)
    \/ \E t \in Tasks : PutL2(t)
    \/ \E t \in Tasks : Cancel(t)
    \/ \E t \in Tasks : Collect(t)

SpecCount == InitLog /\ [][NextCount]_vars

\* a cascade that has run for a while: at time 0 the tiers hold entries of the first
\* key, stored at some earlier times (an edge age of -1: no edge entry), with the
\* content origin has for it; no call is in flight
InitHits ==
    /\ origin \in Origins
    /\ \E a \in {SINGLE_TIER, TWO_TIER}, ttl1, ttl2 \in 1..MaxAge,
          age1 \in -1..MaxAge, age2 \in 0..MaxAge :
          /\ config = CacheConfig(a, ttl1, ttl2)
          /\ l1_cache = IF age1 = -1 THEN MockCache("edge", ttl1)
                        ELSE CachePut(MockCache("edge", ttl1), "0_0_0",
                                      origin["0_0_0"], 0 - age1)
          /\ l2_cache = IF a = TWO_TIER
                        THEN CachePut(MockCache("regional", ttl2), "0_0_0",
                                      origin["0_0_0"], 0 - age2)
                        ELSE NoCache
    /\ now = 0
    /\ metrics = CacheMetrics
    /\ locked = FALSE
    /\ waiters = << >>
    /\ other = NewCascade(Counterpart(config))
    /\ svc = NewService
    /\ pc = [t \in Tasks |-> "idle"]
    /\ key = [t \in Tasks |-> ""]
    /\ content = [t \in Tasks |-> None]
    /\ result = [t \in Tasks |-> << >>]
    /\ calls = 0
    /\ obs = [task |-> [t \in Tasks |-> NoObs],
              lastRet |-> [k \in Keys |-> None],
              stored |-> {"0_0_0"},
              rets |-> NoRets,
              only |-> "mixed",
              logging |-> FALSE,
              log |-> << >>,
              snapshot |-> NoSnapshot]

\* get_content calls of the first key while time passes
NextHits ==
    \/ \E t \in Tasks : get_content(t, "0_0_0")
    \/ \E t \in Tasks : LockGranted(t)
    \/ \E t \in Tasks : L1Lookup(t)
    \/ \E t \in Tasks : L2Lookup(t)
    \/ \E t \in Tasks : L2HitPopulate(t)
    \/ \E t \in Tasks : OriginFetch(t)
    \/ \E t \in Tasks : FillL1(t)
    \/ \E t \in Tasks : FillL2(t)
    \/ \E t \in Tasks : Collect(t)
    \/ Tick

SpecHits == InitHits /\ [][NextHits]_vars

(* ================================================================ claims *)
TwoTier == config.architecture = TWO_TIER
TaskObs(t) == obs.task[t]
\* the call of task t has ended with a result or a failure and its caller sees it now
Ended(t) == pc[t] \in {"returned", "failed"}
\* the edge / regional lookup of task t found an entry younger than the tier's TTL
EdgeValid(t) == 0 <= TaskObs(t).seen1 /\ TaskObs(t).seen1 < config.l1_ttl
RegionalValid(t) == 0 <= TaskObs(t).seen2 /\ TaskObs(t).seen2 < config.l2_ttl
\* the counters m with the given increments
Plus(m, l1h, l1m, l2h, l2m, oh) ==
    [l1_hits |-> m.l1_hits + l1h, l1_misses |-> m.l1_misses + l1m,
     l2_hits |-> m.l2_hits + l2h, l2_misses |-> m.l2_misses + l2m,
     origin_hits |-> m.origin_hits + oh]
L2Miss == IF TwoTier THEN 1 ELSE 0
\* the counters as the call of task t alone has changed them since it took the lock
OwnCounters(t) ==
    LET m0 == TaskObs(t).m0
    IN CASE pc[t] = "l1_get" -> m0
         [] pc[t] = "l2_get" -> Plus(m0, 0, 1, 0, 0, 0)
         [] pc[t] = "l2hit_put" -> Plus(m0, 0, 1, 1, 0, 0)
         [] pc[t] = "origin" -> Plus(m0, 0, 1, 0, L2Miss, 0)
         [] pc[t] \in {"fill_l1", "fill_l2"} -> Plus(m0, 0, 1, 0, L2Miss, 1)

\* C1: at most one get_content resolution is between acquiring and releasing the
\* cascade lock, the lock is held exactly then, and while a resolution is suspended
\* (in any latency) the counters are those it found when it took the lock plus its
\* own increments: no other call has counted in between.
C1_OneResolutionAtATime ==
    /\ Cardinality({t \in Tasks : pc[t] \in Holding}) <= 1
    /\ locked <=> \E t \in Tasks : pc[t] \in Holding
    /\ \A t \in Tasks : pc[t] \in Holding => metrics = OwnCounters(t)

\* C1 witness: a resolution is suspended in the origin latency while a call for
\* another key waits for the lock
C1_Witness ==
    \E t, u \in Tasks :
        pc[t] = "origin" /\ pc[u] = "lock_wait" /\ key[t] # key[u]

\* C2: when every call made so far was a get_content of one key k present at origin,
\* none was cancelled, no put_content ran, no TTL has elapsed since construction and
\* all N calls have ended, exactly one returned origin_hit and N-1 returned l1_hit
\* (origin_hits = 1, l1_misses = 1, l1_hits = N-1).
C2_OneOriginHitRestL1Hits ==
    \A k \in Keys :
        ( /\ obs.only = k
          /\ origin[k] # None
          /\ now < config.l1_ttl
          /\ calls >= 1
          /\ \A t \in Tasks : pc[t] = "idle" )
        => /\ obs.rets = [l1_hit |-> calls - 1, l2_hit |-> 0, origin_hit |-> 1,
                          not_found |-> 0]
           /\ metrics.origin_hits = 1
           /\ metrics.l1_misses = 1
           /\ metrics.l1_hits = calls - 1

\* C3: a get_content(k) that took the lock when no tier had ever stored k, with k
\* present at origin and no put_content(k) writing meanwhile, ends by returning
\* origin's content as origin_hit, having changed the counters by exactly
\* l1_misses +1, origin_hits +1 and (two-tier) l2_misses +1.
C3_FirstGetIsOriginHit ==
    \A t \in Tasks :
        (Ended(t) /\ TaskObs(t).fresh /\ ~TaskObs(t).putDuring /\ origin[key[t]] # None)
        => /\ pc[t] = "returned"
           /\ result[t] = <<origin[key[t]], "origin_hit">>
           /\ metrics = Plus(TaskObs(t).m0, 0, 1, 0, L2Miss, 1)

\* C3 witness: such a first call has just returned in a two-tier cascade
C3_Witness ==
    \E t \in Tasks :
        /\ pc[t] = "returned" /\ TaskObs(t).fresh /\ ~TaskObs(t).putDuring
        /\ TwoTier /\ result[t][2] = "origin_hit"

\* C4: the get_content(k) that follows a successful get_content(k), with no
\* put_content(k) in between and the edge entry not older than the edge TTL when it
\* is looked up, returns the same content as l1_hit.
C4_RepeatIsL1Hit ==
    \A t \in Tasks :
        (Ended(t) /\ TaskObs(t).prev # None /\ EdgeValid(t) /\ ~TaskObs(t).putDuring)
        => result[t] = <<TaskObs(t).prev, "l1_hit">>

\* the tier holds an entry for the key of task t
Holds(cache, t) == key[t] \in DOMAIN cache.storage
\* the tier holds an entry for the key of task t with the content the call returned
HoldsReturned(cache, t) ==
    Holds(cache, t) /\ cache.storage[key[t]].content = result[t][1]

C6_RegionalHit ==
    \A t \in Tasks :
        (Ended(t) /\ TwoTier /\ ~EdgeValid(t) /\ RegionalValid(t))
        => /\ pc[t] = "returned"
           /\ result[t][2] = "l2_hit"
           /\ metrics = Plus(TaskObs(t).m0, 0, 1, 1, 0, 0)
           /\ TaskObs(t).path = <<"l1", "l2">>
           /\ ~TaskObs(t).putDuring => HoldsReturned(l2_cache, t)

\* C7: a get_content whose edge lookup finds an entry at least as old as the edge TTL
\* is never reported as l1_hit; in a single-tier cascade with the key at origin it
\* returns origin's content as origin_hit and origin_hits grows by one.
C7_ExpiredEdgeIsNoL1Hit ==
    \A t \in Tasks :
        (Ended(t) /\ TaskObs(t).seen1 >= config.l1_ttl)
        => /\ result[t][2] # "l1_hit"
           /\ (~TwoTier /\ origin[key[t]] # None) =>
                  /\ result[t] = <<origin[key[t]], "origin_hit">>
                  /\ metrics.origin_hits = TaskObs(t).m0.origin_hits + 1

\* C7 witness: a single-tier call that found an expired edge entry has just returned
C7_Witness ==
    \E t \in Tasks :
        /\ pc[t] = "returned" /\ ~TwoTier /\ TaskObs(t).seen1 >= config.l1_ttl
        /\ result[t][2] = "origin_hit"

\* the call of task t has consulted origin
ReachedOrigin(t) ==
    LET path == TaskObs(t).path IN path # << >> /\ path[Len(path)] = "origin"

\* C8: a get_content that has missed every tier and consulted an origin without the
\* key has failed with 404 (it populates nothing), it wrote no tier, the counters
\* changed by l1_misses +1 and (two-tier) l2_misses +1 only, and a tier holds an entry
\* for the key only if the lookup found one there or a put_content wrote one meanwhile.
C8_NotFound ==
    \A t \in Tasks :
        (ReachedOrigin(t) /\ origin[key[t]] = None)
        => /\ pc[t] = "failed"
           /\ result[t] = <<None, "HTTPException_404">>
           /\ TaskObs(t).wrote = {}
           /\ metrics = Plus(TaskObs(t).m0, 0, 1, 0, L2Miss, 0)
           /\ ~TaskObs(t).putDuring =>
                  /\ Holds(l1_cache, t) => TaskObs(t).seen1 >= 0
                  /\ Holds(l2_cache, t) => TaskObs(t).seen2 >= 0

\* C8 witness: a call has just failed in a two-tier cascade
C8_Witness ==
    \E t \in Tasks : pc[t] = "failed" /\ TwoTier /\ ReachedOrigin(t)

\* C9: get_content fails exactly when origin has no content for the key and no tier
\* held a valid entry for it when consulted; the failure is the 404, and every other
\* call returns content labelled l1_hit, l2_hit or origin_hit.
C9_FailsIffNowhere ==
    \A t \in Tasks :
        Ended(t) =>
            /\ pc[t] = "failed" <=>
                   (origin[key[t]] = None /\ ~EdgeValid(t) /\ ~RegionalValid(t))
            /\ pc[t] = "failed" => result[t] = <<None, "HTTPException_404">>
            /\ pc[t] = "returned" =>
                   /\ result[t][1] # None
                   /\ result[t][2] \in {"l1_hit", "l2_hit", "origin_hit"}

\* the storage of a tier is the same but for key k
SameButFor(cache1, cache2, k) ==
    /\ DOMAIN cache2.storage \ {k} = DOMAIN cache1.storage \ {k}
    /\ \A x \in DOMAIN cache1.storage \ {k} : cache2.storage[x] = cache1.storage[x]
    /\ cache2.name = cache1.name /\ cache2.ttl = cache1.ttl

C11_PutThenGetIsServedFromCache ==
    \A t \in Tasks :
        (Ended(t) /\ TaskObs(t).prevPut # None /\ EdgeValid(t) /\ ~TaskObs(t).putDuring)
        => /\ pc[t] = "returned"
           /\ result[t] = <<TaskObs(t).prevPut, "l1_hit">>
           /\ TaskObs(t).path = <<"l1">>

\* every call made so far has ended and was a put_content of key k that ran to
\* completion, and there were at least two of them
OnlyPutsOf(k) ==
    /\ \A t \in Tasks : pc[t] = "idle"
    /\ Len(obs.log) = calls /\ calls >= 2
    /\ \A i \in 1..Len(obs.log) : obs.log[i][1] = "put_done" /\ obs.log[i][2] = k

\* the tier holds content c under key k
HoldsContent(cache, k, c) ==
    k \in DOMAIN cache.storage /\ cache.storage[k].content = c

\* C12: when put_content calls of one key k, overlapping in any way, have all
\* completed (and nothing else was called), the tiers are as some serial order of the
\* calls leaves them: every tier holds the content of one and the same call, the last
\* of that order, so edge and regional do not hold contents of different writers.
C12_PutsLeaveSerialState ==
    \A k \in Keys :
        OnlyPutsOf(k) =>
            \E i \in 1..Len(obs.log) :
                /\ HoldsContent(l1_cache, k, obs.log[i][3])
                /\ TwoTier => HoldsContent(l2_cache, k, obs.log[i][3])

\* the content a tier holds under key k, None when it holds no entry
ContentOf(cache, k) ==
    IF k \in DOMAIN cache.storage THEN cache.storage[k].content ELSE None

\* get_content(k) run alone, without a TTL elapsing, on tiers holding c1 and c2 under
\* k and counters m: what it returns, what the tiers hold under k and the counters
SerialGet(c1, c2, m, k) ==
    IF Truthy(c1)
    THEN [ret |-> <<c1, "l1_hit">>, l1 |-> c1, l2 |-> c2, m |-> Plus(m, 1, 0, 0, 0, 0)]
    ELSE IF TwoTier /\ Truthy(c2)
    THEN [ret |-> <<c2, "l2_hit">>, l1 |-> c2, l2 |-> c2, m |-> Plus(m, 0, 1, 1, 0, 0)]
    ELSE IF ReadOrigin(k) = None
    THEN [ret |-> <<None, "HTTPException_404">>, l1 |-> c1, l2 |-> c2,
          m |-> Plus(m, 0, 1, 0, L2Miss, 0)]
    ELSE [ret |-> <<ReadOrigin(k), "origin_hit">>, l1 |-> ReadOrigin(k),
          l2 |-> IF TwoTier THEN ReadOrigin(k) ELSE c2,
          m |-> Plus(m, 0, 1, 0, L2Miss, 1)]

\* put_content(k, c) run alone on a cascade in the state s
SerialPut(s, c) ==
    [s EXCEPT !.l1 = c, !.l2 = IF TwoTier THEN c ELSE @]

\* the two serial executions of get_content(k) and put_content(k, c) on a new cascade
GetThenPut(k, c) == SerialPut(SerialGet(None, None, CacheMetrics, k), c)
PutThenGet(k, c) == SerialGet(c, IF TwoTier THEN c ELSE None, CacheMetrics, k)

\* C13: when the only calls made on a new cascade were one get_content(k) and one
\* put_content(k, c), overlapping in any way, both have ended and no time has passed,
\* then what the get returned, what the tiers hold under k and the counters are those
\* of one of the two serial executions of the two calls.
C13_GetAndPutAreSerializable ==
    \A k \in Keys : \A g, p \in 1..2 :
        ( /\ \A t \in Tasks : pc[t] = "idle"
          /\ calls = 2 /\ Len(obs.log) = 2 /\ now = 0
          /\ obs.log[g][1] \in {"returned", "failed"} /\ obs.log[g][2] = k
          /\ obs.log[p][1] = "put_done" /\ obs.log[p][2] = k )
        => LET actual == [ret |-> <<obs.log[g][3], obs.log[g][4]>>,
                          l1 |-> ContentOf(l1_cache, k),
                          l2 |-> ContentOf(l2_cache, k),
                          m |-> metrics]
           IN actual \in {GetThenPut(k, obs.log[p][3]), PutThenGet(k, obs.log[p][3])}

\* the five counters of a snapshot
Counters(d) ==
    [l1_hits |-> d.l1_hits, l1_misses |-> d.l1_misses, l2_hits |-> d.l2_hits,
     l2_misses |-> d.l2_misses, origin_hits |-> d.origin_hits]

\* the counters m0 with the increments that a resolution has made when it is at `at`
CountersAt(m0, at) ==
    CASE at \in {"", "l1_get"} -> m0
      [] at = "l2_get" -> Plus(m0, 0, 1, 0, 0, 0)
      [] at = "l2hit_put" -> Plus(m0, 0, 1, 1, 0, 0)
      [] at = "origin" -> Plus(m0, 0, 1, 0, L2Miss, 0)
      [] at \in {"fill_l1", "fill_l2"} -> Plus(m0, 0, 1, 0, L2Miss, 1)

\* C14 as claimed: a snapshot shows the counters as whole resolutions have left them:
\* those found by the resolution that held the lock when the snapshot was taken (the
\* current ones when none did), with none of the increments of that resolution.
C14_SnapshotOfWholeResolutions ==
    obs.snapshot.taken => Counters(obs.snapshot.value) = obs.snapshot.base

\* C14 as amended: a snapshot shows the counters as the ended resolutions have left
\* them plus the increments made so far by the one resolution that held the lock
\* when the snapshot was taken: after its edge miss and before its outcome the miss
\* is shown without the outcome.
C14_SnapshotOfCountersSoFar ==
    obs.snapshot.taken =>
        Counters(obs.snapshot.value) = CountersAt(obs.snapshot.base, obs.snapshot.at)

\* C14 witness: a snapshot was taken while a resolution was suspended in the origin
\* latency, its tier misses counted and its outcome not yet
C14_Witness ==
    obs.snapshot.taken /\ obs.snapshot.at = "origin"

\* C15: a get_metrics step changes no counter and no tier entry and returns the
\* counters as they are; and a snapshot once returned reads the same after every
\* later step, whatever that step counts.
C15_SnapshotIsReadOnlyCopy ==
    [][ /\ obs'.snapshot # obs.snapshot =>
               /\ metrics' = metrics /\ l1_cache' = l1_cache /\ l2_cache' = l2_cache
               /\ Counters(View(obs.snapshot)') = metrics
        /\ (obs.snapshot.taken /\ obs'.snapshot = obs.snapshot) =>
               View(obs.snapshot)' = View(obs.snapshot)
      ]_vars

\* C15 witness: the counters have grown since the snapshot was taken, and a tier
\* holds an entry
C15_Witness ==
    /\ obs.snapshot.taken
    /\ Counters(View(obs.snapshot)) # metrics
    /\ DOMAIN l1_cache.storage # {}

\* C16: every counter is 0 at construction, and every step of get_content,
\* put_content or get_metrics leaves each counter as it is or larger by exactly one.
C16_CountersStartAtZeroAndGrowByOne ==
    /\ metrics = CacheMetrics
    /\ [][ \A c \in DOMAIN metrics : metrics'[c] \in {metrics[c], metrics[c] + 1} ]_vars

\* C16 witness: a counter has grown twice and a snapshot was taken in between
C16_Witness ==
    /\ metrics.l1_misses = 2
    /\ obs.snapshot.taken /\ obs.snapshot.value.l1_misses = 1

\* the fraction r has the value h / total
IsQuotient(r, h, total) == r[2] > 0 /\ r[1] * total = h * r[2]

\* C17: in a snapshot the counters are those at read time, l1_hit_rate has the value
\* l1_hits / (l1_hits + l1_misses) and is 0 when l1_hits + l1_misses = 0, l2_hit_rate
\* is the same of l2_hits and l2_misses, and for l1_hits = 2, l1_misses = 2 the edge
\* rate is one half.
C17_HitRates ==
    obs.snapshot.taken =>
        LET d == View(obs.snapshot)
        IN /\ Counters(d) = metrics
           /\ IF d.l1_hits + d.l1_misses = 0 THEN d.l1_hit_rate = Zero
              ELSE IsQuotient(d.l1_hit_rate, d.l1_hits, d.l1_hits + d.l1_misses)
           /\ IF d.l2_hits + d.l2_misses = 0 THEN d.l2_hit_rate = Zero
              ELSE IsQuotient(d.l2_hit_rate, d.l2_hits, d.l2_hits + d.l2_misses)
           /\ (d.l1_hits = 2 /\ d.l1_misses = 2) => d.l1_hit_rate = <<1, 2>>

\* C17 witness: a snapshot of l1_hits = 2, l1_misses = 2 and no regional lookup
C17_Witness ==
    /\ obs.snapshot.taken
    /\ metrics.l1_hits = 2 /\ metrics.l1_misses = 2
    /\ metrics.l2_hits + metrics.l2_misses = 0
    /\ View(obs.snapshot).l1_hit_rate = <<1, 2>>

\* C18: the regional tier is present exactly in a two-tier cascade, in every state
\* from construction on; a single-tier cascade has none and is never given one.
C18_RegionalIffTwoTier ==
    /\ l2_cache # NoCache <=> TwoTier
    /\ TwoTier => l2_cache.name = "regional" /\ l2_cache.ttl = config.l2_ttl
    /\ l1_cache.name = "edge"

\* C18 witness: a single-tier cascade whose calls have stored in the edge tier and
\* counted an origin hit
C18_Witness ==
    /\ ~TwoTier
    /\ DOMAIN l1_cache.storage # {}
    /\ metrics.origin_hits > 0

\* C19: the step that cancels a get_content, at any of its suspension points,
\* delivers no content (the call ends with CancelledError) and leaves every tier
\* entry and every counter as it is at that moment; nothing the call did is undone.
C19_CancelRollsNothingBack ==
    [][ \A t \in Tasks :
          (pc[t] \in Holding \cup {"lock_wait"} /\ pc'[t] = "cancelled") =>
              /\ result'[t] = <<None, "CancelledError">>
              /\ l1_cache' = l1_cache /\ l2_cache' = l2_cache
              /\ metrics' = metrics /\ origin' = origin
              /\ obs'.rets = obs.rets
      ]_vars

\* C19 witness: a get_content cancelled in its regional population, after it has
\* counted and has written the edge tier
C19_Witness ==
    \E t \in Tasks :
        /\ pc[t] = "cancelled" /\ TaskObs(t).wrote = {"l1"}
        /\ TaskObs(t).path = <<"l1", "l2", "origin">>
        /\ metrics = Plus(TaskObs(t).m0, 0, 1, 0, 1, 1)
        /\ Holds(l1_cache, t) /\ ~Holds(l2_cache, t)

\* C20: the lookup of a tier that holds an entry for the key returns its content
\* and keeps the entry exactly when the entry's age is below the tier's TTL: at age
\* = TTL and later, and at every age when the TTL is 0, it returns nothing and the
\* entry is removed.
C20_ValidIffYoungerThanTtl ==
    \A t \in Tasks :
        /\ (TaskObs(t).path = <<"l1">> /\ TaskObs(t).seen1 >= 0) =>
               /\ content[t] # None <=> TaskObs(t).seen1 < config.l1_ttl
               /\ Holds(l1_cache, t) <=> TaskObs(t).seen1 < config.l1_ttl
        /\ (TaskObs(t).path = <<"l1", "l2">> /\ TaskObs(t).seen2 >= 0) =>
               /\ content[t] # None <=> TaskObs(t).seen2 < config.l2_ttl
               /\ Holds(l2_cache, t) <=> TaskObs(t).seen2 < config.l2_ttl

\* C20 witness: an entry looked up at the age of its TTL, not 0, was found expired
C20_Witness ==
    \E t \in Tasks :
        /\ TaskObs(t).path = <<"l1">>
        /\ TaskObs(t).seen1 = config.l1_ttl /\ config.l1_ttl > 0
        /\ content[t] = None /\ ~Holds(l1_cache, t)

\* the entry of key k in a tier is as old as the tier's TTL or older
Expired(cache, k, time) == time - cache.storage[k].timestamp >= cache.storage[k].ttl

\* task t completes a lookup of the tier it is suspended in at `at` in the step
Looks(t, at) == pc[t] = at /\ pc'[t] \notin {at, "cancelled"}

\* C21: an entry leaves a tier's storage only in the step of a lookup of its own key
\* in that tier that finds it expired, and that lookup returns absent; and every
\* lookup that finds an expired entry for its key removes it. No other step (the
\* passage of time, a lookup of another key, a put, a cancellation) removes an entry.
C21_EvictionIsLazy ==
    [][ /\ \A k \in DOMAIN l1_cache.storage \ DOMAIN l1_cache'.storage :
              \E t \in Tasks : /\ Looks(t, "l1_get") /\ key[t] = k
                               /\ Expired(l1_cache, k, now) /\ content'[t] = None
        /\ \A k \in DOMAIN l2_cache.storage \ DOMAIN l2_cache'.storage :
              \E t \in Tasks : /\ Looks(t, "l2_get") /\ key[t] = k
                               /\ Expired(l2_cache, k, now) /\ content'[t] = None
        /\ \A t \in Tasks :
              /\ (Looks(t, "l1_get") /\ Holds(l1_cache, t) /\ Expired(l1_cache, key[t], now))
                     => key[t] \notin DOMAIN l1_cache'.storage /\ content'[t] = None
              /\ (Looks(t, "l2_get") /\ Holds(l2_cache, t) /\ Expired(l2_cache, key[t], now))
                     => key[t] \notin DOMAIN l2_cache'.storage /\ content'[t] = None
      ]_vars

\* C21 witness: a lookup has found the edge entry of its key expired and removed it,
\* while the regional entry of the key is still stored
C21_Witness ==
    \E t \in Tasks :
        /\ TaskObs(t).path = <<"l1">> /\ TaskObs(t).seen1 >= config.l1_ttl
        /\ ~Holds(l1_cache, t)
        /\ TwoTier /\ Holds(l2_cache, t)

\* task t completes the put of the tier it is suspended in at `at` in the step
Writes(t, at) == pc[t] = at /\ pc'[t] \notin {at, "cancelled"}

\* the tier cache2 is the tier cache after put(k, c) at the present time
PutEffect(cache, cache2, k, c) ==
    /\ k \in DOMAIN cache2.storage
    /\ cache2.storage[k] = [content |-> c, timestamp |-> now, ttl |-> cache.ttl]
    /\ SameButFor(cache, cache2, k)
    /\ (k \in DOMAIN cache.storage /\ cache.storage[k].content = c) =>
           cache2.storage[k] = [cache.storage[k] EXCEPT !.timestamp = now]

\* C22: every tier put (of put_content, of the population after a regional hit or
\* an origin hit), at the step that follows its latency, leaves under its key one
\* entry with its content, the time of that step and the tier's TTL, whatever the
\* tier held before, and leaves the other keys' entries as they are; on an entry
\* with the same content it changes the timestamp only.
C22_TierPutReplaces ==
    [][ \A t \in Tasks :
          /\ (\E at \in {"put_l1", "fill_l1", "l2hit_put"} : Writes(t, at)) =>
                 PutEffect(l1_cache, l1_cache', key[t], content[t])
          /\ (\E at \in {"put_l2", "fill_l2"} : Writes(t, at)) =>
                 PutEffect(l2_cache, l2_cache', key[t], content[t])
      ]_vars

\* C22 witness: a put_content of the content that an origin hit had stored at time 0
\* has rewritten the edge entry at time 1 and not yet the regional entry
C22_Witness ==
    \E t \in Tasks :
        /\ pc[t] = "put_l2" /\ content[t] = origin[key[t]] /\ obs.rets.origin_hit = 1
        /\ Holds(l1_cache, t) /\ Holds(l2_cache, t)
        /\ l1_cache.storage[key[t]] = CacheEntry(content[t], 1, config.l1_ttl)
        /\ l2_cache.storage[key[t]] = CacheEntry(content[t], 0, config.l2_ttl)

\* C23: the step in which a tier get completes, whatever puts and gets of the same
\* key are in flight, yields the content of a stored entry or absent and never a
\* failure: it yields absent for a missing key and for an expired entry, the call
\* does not fail in that step, and no failure of a call follows a tier lookup
\* without the origin having been consulted.
C23_TierGetNeverFails ==
    [][ \A t \in Tasks :
          /\ Looks(t, "l1_get") =>
                 /\ content'[t] \in Contents \cup {None}
                 /\ (~Holds(l1_cache, t) \/ Expired(l1_cache, key[t], now)) =>
                        content'[t] = None
                 /\ pc'[t] # "failed"
          /\ Looks(t, "l2_get") =>
                 /\ content'[t] \in Contents \cup {None}
                 /\ (~Holds(l2_cache, t) \/ Expired(l2_cache, key[t], now)) =>
                        content'[t] = None
                 /\ pc'[t] # "failed"
          /\ pc'[t] = "failed" => pc[t] \in {"origin", "failed"}
      ]_vars

\* C23 witness: an edge lookup has found its entry expired and returned absent while
\* a put_content of the same key is between its edge put and its regional put
C23_Witness ==
    \E t, u \in Tasks :
        /\ TaskObs(t).path = <<"l1">> /\ TaskObs(t).seen1 >= config.l1_ttl
        /\ content[t] = None /\ pc[t] = "l2_get"
        /\ pc[u] = "put_l2" /\ key[u] = key[t]

\* C24: the failure of a get_content(k) carries k: its detail differs from the detail
\* of the failure of a get_content of any other key.
C24_NotFoundCarriesKey ==
    \A t \in Tasks :
        pc[t] = "failed" =>
            \A k \in Keys \ {key[t]} : NotFoundDetail(key[t]) # NotFoundDetail(k)

\* C25: a retrieval of key k that takes the lock when the upload of (k, str) was the
\* last call to end, with no other upload of k in flight and the edge entry younger
\* than the edge TTL, is answered with success and a content field equal to str.
C25_UploadRetrieveRoundTrip ==
    \A t \in Tasks :
        (Ended(t) /\ TaskObs(t).prevPut # None /\ EdgeValid(t) /\ ~TaskObs(t).putDuring)
        => /\ pc[t] = "returned"
           /\ \A str \in UploadStrings :
                  Encode(str) = TaskObs(t).prevPut => ContentResponse(result[t]).content = str

\* C29: a get_content whose edge lookup found an entry younger than the edge TTL,
\* whatever its content, has counted l1_hits +1 only and returned l1_hit, and only
\* such a call returns l1_hit; one whose edge lookup found none such and whose
\* regional lookup found an entry younger than the regional TTL has counted
\* l1_misses +1 and l2_hits +1 only and, unless cancelled, returns l2_hit.
C29_ValidEntryIsHit ==
    \A t \in Tasks :
        /\ (TaskObs(t).path # << >> /\ EdgeValid(t)) =>
               /\ pc[t] = "returned" /\ result[t][2] = "l1_hit"
               /\ metrics = Plus(TaskObs(t).m0, 1, 0, 0, 0, 0)
        /\ (pc[t] = "returned" /\ result[t][2] = "l1_hit") => EdgeValid(t)
        /\ (Len(TaskObs(t).path) >= 2 /\ ~EdgeValid(t) /\ RegionalValid(t)) =>
               /\ metrics = Plus(TaskObs(t).m0, 0, 1, 1, 0, 0)
               /\ Ended(t) => (pc[t] = "returned" /\ result[t][2] = "l2_hit")

\* the sequences of levels that a get_content can have consulted
Orders ==
    IF TwoTier
    THEN {<< >>, <<"l1">>, <<"l1", "l2">>, <<"l1", "l2", "origin">>}
    ELSE {<< >>, <<"l1">>, <<"l1", "origin">>}

\* C30: the levels a get_content has consulted are, in this order and each once, the
\* edge tier, the regional tier (two-tier only) and origin, or a prefix of that; the
\* regional lookup and the origin latency are entered only with the edge lookup
\* counted as a miss and no edge hit, and the origin latency, in a two-tier cascade,
\* only with the regional lookup counted as a miss and no regional hit; this also
\* when origin then has no content for the key.
C30_FixedLookupOrder ==
    \A t \in Tasks :
        LET path == TaskObs(t).path
            m0 == TaskObs(t).m0
        IN /\ path \in Orders
           /\ pc[t] = "l1_get" => path = << >>
           /\ pc[t] = "l2_get" => path = <<"l1">>
           /\ pc[t] = "origin" => path = (IF TwoTier THEN <<"l1", "l2">> ELSE <<"l1">>)
           /\ (pc[t] \in {"l2_get", "origin"} \/ Len(path) >= 2) =>
                  /\ metrics.l1_misses = m0.l1_misses + 1
                  /\ metrics.l1_hits = m0.l1_hits
           /\ ((pc[t] = "origin" \/ ReachedOrigin(t)) /\ TwoTier) =>
                  /\ metrics.l2_misses = m0.l2_misses + 1
                  /\ metrics.l2_hits = m0.l2_hits

\* C30 witness: a two-tier call has consulted edge, regional and origin and failed
\* for a key that origin does not have
C30_Witness ==
    \E t \in Tasks :
        /\ pc[t] = "failed" /\ TwoTier
        /\ TaskObs(t).path = <<"l1", "l2", "origin">> /\ origin[key[t]] = None

\* the counters m count the calls that have returned the labels counted in r
CountsOwn(m, r) ==
    /\ m.l1_hits = r.l1_hit /\ m.l2_hits = r.l2_hit /\ m.origin_hits = r.origin_hit
    /\ m.l1_misses = r.l2_hit + r.origin_hit + r.not_found

\* C26: a step of a call on one instance changes no tier, no counter and nothing
\* else of the other instance, and whenever no call is in flight the counters of
\* each instance count exactly the calls that this instance has answered.
C26_InstancesShareNothing ==
    /\ []((\A t \in Tasks : pc[t] = "idle") =>
             (CountsOwn(metrics, obs.rets) /\ CountsOwn(other.metrics, other.rets)))
    /\ [][ /\ config' = config => other' = other
           /\ config' # config =>
                  /\ other'.metrics = metrics /\ metrics' = other.metrics
                  /\ other'.l1_cache = l1_cache /\ l1_cache' = other.l1_cache
                  /\ other'.l2_cache = l2_cache /\ l2_cache' = other.l2_cache
         ]_vars

\* C26 witness: each of the two instances has answered one call from origin and
\* holds the entry, no call in flight
C26_Witness ==
    /\ \A t \in Tasks : pc[t] = "idle"
    /\ metrics.origin_hits = 1 /\ other.metrics.origin_hits = 1
    /\ DOMAIN l1_cache.storage # {} /\ DOMAIN other.l1_cache.storage # {}


\* the number of records stored for all experiments together
RECURSIVE Stored(_, _)
Stored(results, es) ==
    IF es = {} THEN 0
    ELSE LET e == CHOOSE x \in es : TRUE
         IN Len(ResultsOf(results, e)) + Stored(results, es \ {e})

\* sequence a is the beginning of sequence b
IsPrefix(a, b) == Len(a) <= Len(b) /\ SubSeq(b, 1, Len(a)) = a

\* C27: a post_results whose retrieval of the CDN metrics times out is answered with
\* 504, one whose retrieval fails otherwise with 500, and neither adds a record: the
\* storage is left as it was by the failing request, and holds exactly as many
\* records as requests have succeeded
C27_FailedMetricsStoreNothing ==
    /\ [](Stored(svc.results, Experiments) = svc.ok)
    /\ [][\A r \in Tasks :
            /\ svc.req[r].pc = "metrics_wait"
            /\ svc'.req[r].pc = "responded"
            /\ svc'.req[r].raised # ""
            => /\ svc'.results = svc.results
               /\ svc'.ok = svc.ok
               /\ svc'.req[r].status =
                      IF svc'.req[r].raised = "TimeoutError" THEN 504 ELSE 500]_vars

\* a request whose retrieval timed out is answered with 504, for an experiment that
\* holds the one record of the request that succeeded
C27_Witness ==
    \E r \in Tasks :
        /\ svc.req[r].pc = "responded"
        /\ svc.req[r].status = 504
        /\ svc.req[r].raised = "TimeoutError"
        /\ svc.ok = 1
        /\ Len(ResultsOf(svc.results, svc.req[r].exp)) = 1

\* C28: a successful post_results appends exactly one record, holding the posted
\* test_results and the CDN metrics, to the list of its experiment and changes no
\* other list; no step removes, reorders or modifies a record, with posts in flight
\* at the same time too; so every list returned for an experiment is the beginning
\* of the list stored for it, hence of every list returned later
C28_ResultsOnlyGrowByAppending ==
    /\ [](\A e \in Experiments : IsPrefix(svc.seen[e], ResultsOf(svc.results, e)))
    /\ [][/\ \A e \in Experiments :
                IsPrefix(ResultsOf(svc.results, e), ResultsOf(svc'.results, e))
          /\ \A r \in Tasks :
                /\ svc.req[r].pc = "metrics_wait"
                /\ svc'.req[r].status = 200
                => LET e == svc.req[r].exp
                       new == ResultsOf(svc'.results, e)
                   IN /\ Len(new) = Len(ResultsOf(svc.results, e)) + 1
                      /\ new[Len(new)].data =
                             [test_results |-> svc.req[r].body,
                              cdn_metrics |-> MetricsResponse]
                      /\ \A x \in Experiments \ {e} :
                             ResultsOf(svc'.results, x) = ResultsOf(svc.results, x)]_vars

\* two posts for one experiment were in flight together and both succeeded, with the
\* list of the first record alone returned in between
C28_Witness ==
    \E e \in Experiments :
        /\ Len(ResultsOf(svc.results, e)) = 2
        /\ Len(svc.seen[e]) = 1
        /\ svc.results[e][1].data.test_results # svc.results[e][2].data.test_results


\* C31: the step in which a get_content call returns l1_hit is its edge lookup: it
\* adds one to l1_hits and leaves the other four counters and both tiers' storage
\* (every entry's content, timestamp and ttl) as they were; and the whole call, from
\* taking the lock, has changed the counters by l1_hits +1 only, has consulted the
\* edge tier alone and has written no tier.
C31_L1HitTouchesOnlyL1Hits ==
    /\ [](\A t \in Tasks :
            (pc[t] = "returned" /\ result[t][2] = "l1_hit") =>
                /\ metrics = Plus(TaskObs(t).m0, 1, 0, 0, 0, 0)
                /\ TaskObs(t).path = <<"l1">>
                /\ TaskObs(t).wrote = {})
    /\ [][\A t \in Tasks :
            (pc[t] # "returned" /\ pc'[t] = "returned" /\ result'[t][2] = "l1_hit") =>
                /\ pc[t] = "l1_get"
                /\ metrics' = Plus(metrics, 1, 0, 0, 0, 0)
                /\ l1_cache' = l1_cache
                /\ l2_cache' = l2_cache
                /\ origin' = origin]_vars

\* C31 witness: in a two-tier cascade a call has returned l1_hit from an edge entry
\* stored earlier than the lookup, the regional tier holding the key too
C31_Witness ==
    \E t \in Tasks :
        /\ pc[t] = "returned" /\ result[t][2] = "l1_hit"
        /\ TaskObs(t).seen1 > 0
        /\ TwoTier /\ Holds(l2_cache, t)


\* C32: every step in which a resolution leaves get_content (by return, by the
\* NotFound failure or by cancellation) releases the cascade lock, and a waiter that
\* is cancelled leaves the lock's queue; so with every ready task being run, every
\* started get_content call, waiting for the lock or holding it, ends: with a result
\* or NotFound, unless its task is cancelled.
C32_LockReleasedAndCallsEnd ==
    /\ [][\A t \in Tasks :
            /\ (pc[t] \in Holding /\ pc'[t] \in {"returned", "failed", "cancelled"})
                   => ~locked'
            /\ pc'[t] = "cancelled" => \A i \in 1..Len(waiters') : waiters'[i] # t]_vars
    /\ \A t \in Tasks :
          (pc[t] \in Holding \cup {"lock_wait"})
              ~> (pc[t] \in {"returned", "failed", "cancelled"})
    /\ \A t \in Tasks : (pc[t] = "lock_wait") ~> (pc[t] \in {"l1_get", "cancelled"})

\* C32 witness: a call waits for the lock that a resolution has just released by
\* failing with NotFound
C32_Witness ==
    \E t, u \in Tasks :
        /\ pc[t] = "failed" /\ pc[u] = "lock_wait"
        /\ ~locked /\ waiters = <<u>>


\* no call has been cancelled: none is known cancelled to its caller or is about to be
NoneCancelled ==
    /\ \A t \in Tasks : pc[t] # "cancelled"
    /\ \A i \in 1..Len(obs.log) : obs.log[i][1] # "cancelled"

\* the number of get_content calls that have returned or failed
GetsFinished == obs.rets.l1_hit + obs.rets.l2_hit + obs.rets.origin_hit + obs.rets.not_found

\* the number of get_content calls that have ended by reaching origin: with
\* origin_hit or with NotFound
MissedEveryTier == obs.rets.origin_hit + obs.rets.not_found

\* C33: in every state l2_hits + l2_misses <= l1_misses and origin_hits <= l1_misses,
\* and origin_hits <= l2_misses in a two-tier cascade; and when no get_content is
\* in flight and no call was cancelled, l1_hits + l1_misses is the number of
\* get_content calls that returned or failed, l2_hits + l2_misses = l1_misses in a
\* two-tier cascade (both 0 in a single-tier one), and origin_hits plus the number of
\* NotFound failures is the number of calls that missed every tier, which is the
\* number of misses of the last tier.
C33_CounterAccounting ==
    /\ metrics.l2_hits + metrics.l2_misses <= metrics.l1_misses
    /\ metrics.origin_hits <= metrics.l1_misses
    /\ TwoTier => metrics.origin_hits <= metrics.l2_misses
    /\ ( /\ \A t \in Tasks : pc[t] \notin Holding \cup {"lock_wait"}
         /\ NoneCancelled )
       => /\ metrics.l1_hits + metrics.l1_misses = GetsFinished
          /\ metrics.l1_hits = obs.rets.l1_hit
          /\ TwoTier => metrics.l2_hits + metrics.l2_misses = metrics.l1_misses
          /\ ~TwoTier => metrics.l2_hits + metrics.l2_misses = 0
          /\ metrics.origin_hits + obs.rets.not_found = MissedEveryTier
          /\ MissedEveryTier = IF TwoTier THEN metrics.l2_misses ELSE metrics.l1_misses

\* C33 witness: in a two-tier cascade, with no call cancelled and none in flight, the
\* one get_content call made has returned l2_hit after its edge miss
C33_Witness ==
    /\ TwoTier /\ NoneCancelled
    /\ \A t \in Tasks : pc[t] \notin Holding \cup {"lock_wait"}
    /\ obs.rets.l2_hit = 1
    /\ metrics.l1_misses = 1 /\ metrics.l2_hits = 1
    /\ \E t \in Tasks : pc[t] = "returned"


\* C34: with no put_content ever called and origin unchanged, every entry that the
\* edge or the regional tier holds for a key has the content origin has for that key,
\* and every get_content that has returned, with whatever provenance, has returned
\* the content origin has for its key.
C34_TiersAgreeWithOrigin ==
    /\ \A k \in DOMAIN l1_cache.storage : l1_cache.storage[k].content = origin[k]
    /\ \A k \in DOMAIN l2_cache.storage : l2_cache.storage[k].content = origin[k]
    /\ \A t \in Tasks :
          pc[t] = "returned" =>
              /\ origin[key[t]] # None
              /\ result[t][1] = origin[key[t]]

\* C34 witness: a call has returned l2_hit, and both tiers hold its key
C34_Witness ==
    \E t \in Tasks :
        /\ pc[t] = "returned" /\ result[t][2] = "l2_hit"
        /\ Holds(l1_cache, t) /\ Holds(l2_cache, t)


\* the suspension points inside a method of the regional tier
InRegional == {"l2_get", "fill_l2", "put_l2"}

\* C35: in a single-tier cascade, whatever get_content, put_content and get_metrics
\* operations have run or are in flight, l2_hits and l2_misses are 0 and so is
\* l2_hit_rate, in the counters and in every snapshot taken; no call returns or is
\* about to return l2_hit; and no call is inside a method of the regional tier, which
\* stays absent.
C35_SingleTierHasNoRegional ==
    ~TwoTier =>
        /\ metrics.l2_hits = 0 /\ metrics.l2_misses = 0
        /\ to_dict(metrics).l2_hit_rate = Zero
        /\ obs.snapshot.taken =>
               /\ View(obs.snapshot).l2_hits = 0
               /\ View(obs.snapshot).l2_misses = 0
               /\ View(obs.snapshot).l2_hit_rate = Zero
        /\ \A t \in Tasks :
               /\ pc[t] \notin InRegional \cup {"l2hit_put"}
               /\ pc[t] = "returned" => result[t][2] \in {"l1_hit", "origin_hit"}
        /\ obs.rets.l2_hit = 0
        /\ l2_cache = NoCache

\* C35 witness: in a single-tier cascade a put_content has ended while a get_content
\* is populating the edge from origin, and a snapshot was taken after its edge miss
C35_Witness ==
    /\ ~TwoTier
    /\ obs.snapshot.taken /\ View(obs.snapshot).l1_misses = 1
    /\ \E t, u \in Tasks : pc[t] = "put_done" /\ pc[u] = "fill_l1"


\* C36: a tier get that finds a valid entry for its key leaves the tier as it was
\* (the entry keeps its timestamp and ttl); the population after a regional hit
\* leaves the regional tier as it was and stores the content in the edge tier with
\* the time of the step and the edge TTL; an entry of the regional tier changes only
\* when a call puts its key there again; and a regional lookup at or after the
\* entry's timestamp + ttl yields absent and goes on to origin, whatever hits the
\* entry has served.
C36_HitsDoNotExtendLifetime ==
    [][ /\ \A t \in Tasks :
              /\ (Looks(t, "l1_get") /\ Holds(l1_cache, t) /\ ~Expired(l1_cache, key[t], now))
                     => l1_cache' = l1_cache
              /\ (Looks(t, "l2_get") /\ Holds(l2_cache, t) /\ ~Expired(l2_cache, key[t], now))
                     => l2_cache' = l2_cache
              /\ Writes(t, "l2hit_put") =>
                     /\ l2_cache' = l2_cache
                     /\ Holds(l1_cache', t)
                     /\ l1_cache'.storage[key[t]] = CacheEntry(content[t], now, config.l1_ttl)
              /\ ( /\ Looks(t, "l2_get") /\ Holds(l2_cache, t)
                   /\ now >= l2_cache.storage[key[t]].timestamp + l2_cache.storage[key[t]].ttl )
                     => content'[t] = None /\ pc'[t] = "origin"
        /\ \A k \in DOMAIN l2_cache.storage \cap DOMAIN l2_cache'.storage :
              l2_cache'.storage[k] # l2_cache.storage[k] =>
                  \E t \in Tasks : key[t] = k /\ (Writes(t, "fill_l2") \/ Writes(t, "put_l2"))
      ]_vars

\* C36 witness: the regional entry has served a hit and has not been put again, and a
\* later regional lookup has found it as old as its TTL or older and yielded absent
C36_Witness ==
    \E t \in Tasks :
        /\ obs.rets.l2_hit >= 1 /\ obs.rets.origin_hit = 0
        /\ TaskObs(t).path = <<"l1", "l2">>
        /\ TaskObs(t).seen2 >= config.l2_ttl
        /\ content[t] = None /\ pc[t] = "origin"


\* C37: a step that reads the results (a step of the service in which no request
\* starts, proceeds or ends) leaves the storage as it was: what get_all_results
\* returns after it is what it returned before, also when the experiment read had
\* no results.
C37_ReadsAreReadOnly ==
    [][svc'.req = svc.req =>
          get_all_results(svc'.results) = get_all_results(svc.results)]_vars

====
